---------------------------- MODULE Spec2Model ----------------------------
(***************************************************************************)
(* Model of the Workflow Tool node (ToolWorkflow.supplyData): the          *)
(* DynamicTool whose func records an input event, runs runFunction         *)
(* (resolve the workflow, compose the input item, execute the              *)
(* sub-workflow, extract the response property), folds every outcome into  *)
(* a string and records one output event.                                  *)
(*                                                                         *)
(* Text is modelled as a sequence of fragments (concatenation is \o); the  *)
(* expression marker "=" and the characters of a workflow document are     *)
(* fragments of their own, so prefix tests and stripping work on them.     *)
(***************************************************************************)
EXTENDS Integers, Sequences, FiniteSets, TLC

\* Number of invocations of the tool the agent issues (possibly concurrently).
NumInvocations == 2

Invocations == 1..NumInvocations

(***************************************************************************)
(* JavaScript values that can travel as the response of the sub-workflow.  *)
(* One record shape for all of them: t is the kind, s the text of a        *)
(* string, n the value of a number.                                        *)
(***************************************************************************)
Str(s) == [t |-> "string", s |-> s, n |-> 0]
Num(n) == [t |-> "number", s |-> <<>>, n |-> n]
Bool == [t |-> "boolean", s |-> <<"true">>, n |-> 0]
Obj == [t |-> "object", s |-> <<"nested">>, n |-> 0]
Null == [t |-> "null", s |-> <<>>, n |-> 0]
Undefined == [t |-> "undefined", s |-> <<>>, n |-> 0]

\* typeof v
TypeOf(v) ==
    IF v.t = "null" THEN "object" ELSE v.t

Digit(d) ==
    CASE d = 0 -> "0" [] d = 1 -> "1" [] d = 2 -> "2" [] d = 3 -> "3"
      [] d = 4 -> "4" [] d = 5 -> "5" [] d = 6 -> "6" [] d = 7 -> "7"
      [] d = 8 -> "8" [] d = 9 -> "9"

RECURSIVE Digits(_)
Digits(n) ==
    IF n < 10 THEN <<Digit(n)>> ELSE Digits(n \div 10) \o <<Digit(n % 10)>>

\* Number.prototype.toString() of an integer: one fragment per character.
NumberToString(n) ==
    IF n < 0 THEN <<"-">> \o Digits(0 - n) ELSE Digits(n)

(***************************************************************************)
(* Errors.  NodeOperationError(node, error) takes its message from the     *)
(* error (or the text) it wraps and carries the node.                      *)
(***************************************************************************)
NodeName == "Workflow Tool"

NoError == [isError |-> FALSE, class |-> "none", message |-> <<>>, node |-> ""]

Error(message) ==
    [isError |-> TRUE, class |-> "Error", message |-> message, node |-> ""]

NodeOperationError(node, error) ==
    [isError |-> TRUE, class |-> "NodeOperationError",
     message |-> error.message, node |-> node]

\* `There was an error: "${message}"`
ThereWasAnError(message) ==
    <<"There was an error:", " \"">> \o message \o <<"\"">>

(***************************************************************************)
(* JSON.parse of a workflow document given character by character.  The    *)
(* documents of the model hold at most one flat value ({} , [] or 0)       *)
(* surrounded by line breaks; anything else is a syntax error reported     *)
(* with the offending character and its position.                          *)
(***************************************************************************)
IsWhitespace(c) == c = "\n"

RECURSIVE SkipWhitespace(_, _)
SkipWhitespace(doc, pos) ==
    IF pos <= Len(doc) /\ IsWhitespace(doc[pos])
    THEN SkipWhitespace(doc, pos + 1)
    ELSE pos

UnexpectedEnd == Error(<<"Unexpected end of JSON input">>)

UnexpectedToken(doc, pos) ==
    Error(<<"Unexpected token ", doc[pos], " in JSON at position ">>
          \o NumberToString(pos - 1))

ParseOk(value) == [ok |-> TRUE, value |-> value, error |-> NoError]
ParseFail(error) == [ok |-> FALSE, value |-> "", error |-> error]

\* The rest of the document after a complete value: only whitespace may follow.
ParseEnd(doc, pos, value) ==
    LET p == SkipWhitespace(doc, pos)
    IN  IF p > Len(doc) THEN ParseOk(value) ELSE ParseFail(UnexpectedToken(doc, p))

ParseClose(doc, pos, close, value) ==
    LET p == SkipWhitespace(doc, pos)
    IN  IF p > Len(doc) THEN ParseFail(UnexpectedEnd)
        ELSE IF doc[p] = close THEN ParseEnd(doc, p + 1, value)
        ELSE ParseFail(UnexpectedToken(doc, p))

JSON_parse(doc) ==
    LET p == SkipWhitespace(doc, 1)
    IN  IF p > Len(doc) THEN ParseFail(UnexpectedEnd)
        ELSE IF doc[p] = "{" THEN ParseClose(doc, p + 1, "}", "object")
        ELSE IF doc[p] = "[" THEN ParseClose(doc, p + 1, "]", "array")
        ELSE IF doc[p] = "0" THEN ParseEnd(doc, p + 1, "number")
        ELSE ParseFail(UnexpectedToken(doc, p))


(***************************************************************************)
(* Node parameters (the configuration surface).                            *)
(***************************************************************************)
Sources == {"database", "parameter"}

\* Default of the workflowJson parameter: three line breaks.
DefaultWorkflowJson == <<"\n", "\n", "\n">>

WorkflowJsonDocs ==
    { DefaultWorkflowJson,
      <<"{", "}">>,
      <<"\n", "[", "]", "\n">>,
      <<"{", "n", "o", "t">>,
      <<"{", "}", "}">> }

WorkflowIds == {"wf1"}

ResponsePropertyNames == {"response", "result"}

\* One entry of the fields.values collection, read with rawExpressions.
ObjectField(name, raw) ==
    [name |-> name, type |-> "objectValue", objectValue |-> raw, stringValue |-> <<>>]

StringField(name, raw) ==
    [name |-> name, type |-> "stringValue", objectValue |-> <<>>, stringValue |-> raw]

FieldLists ==
    { <<>>,
      <<ObjectField("extra", <<"=", "=", "{a:1}">>), StringField("note", <<"=", "x">>)>> }

NumberField(name, raw) ==
    [name |-> name, type |-> "numberValue", numberValue |-> raw]

BooleanField(name, raw) ==
    [name |-> name, type |-> "booleanValue", booleanValue |-> raw]

ArrayField(name, raw) ==
    [name |-> name, type |-> "arrayValue", arrayValue |-> raw]

\* Entries the user can add to fields.values: object overrides with one or
\* several leading markers, without one, with a marker further in, with
\* nothing after the marker, under the name of the query, and overrides of
\* the other kinds whose raw value is an expression.
FieldEntries ==
    { ObjectField("extra", <<"=", "{a:1}">>),
      ObjectField("extra", <<"=", "=", "{a:1}">>),
      ObjectField("extra", <<"=", "{b:", "=", "2}">>),
      ObjectField("extra", <<"{c:3}">>),
      ObjectField("more", <<"=">>),
      ObjectField("query", <<"=", "{q:0}">>),
      StringField("extra", <<"=", "x">>),
      NumberField("extra", <<"=", "1">>),
      BooleanField("flag", <<"=", "true">>),
      ArrayField("more", <<"=", "[1]">>) }

\* The longest fields.values collection explored.
MaxFields == 2

FieldListsUpTo(n) == UNION { [1..k -> FieldEntries] : k \in 0..n }

Configs ==
    { [source |-> src, workflowId |-> id, workflowJson |-> doc,
       responsePropertyName |-> p, fields |-> f] :
        src \in Sources, id \in WorkflowIds, doc \in WorkflowJsonDocs,
        p \in ResponsePropertyNames, f \in FieldLists }

\* workflowJson is shown (and set) only when source is parameter.
ValidConfig(c) ==
    c.source = "database" => c.workflowJson = DefaultWorkflowJson

(***************************************************************************)
(* runFunction, first part: the workflow reference.                        *)
(***************************************************************************)
NoWorkflowInfo == [hasId |-> FALSE, id |-> "", hasCode |-> FALSE, code |-> ""]

\* Variant: a document that does not parse is ignored and the run goes on
\* without a workflow.
ResolveWorkflowLenient(c) ==
    IF c.source = "database"
    THEN [thrown |-> FALSE, error |-> NoError,
          workflowInfo |-> [NoWorkflowInfo EXCEPT !.hasId = TRUE, !.id = c.workflowId]]
    ELSE IF c.source = "parameter" /\ JSON_parse(c.workflowJson).ok
    THEN [thrown |-> FALSE, error |-> NoError,
          workflowInfo |-> [NoWorkflowInfo EXCEPT
                               !.hasCode = TRUE,
                               !.code = JSON_parse(c.workflowJson).value]]
    ELSE [thrown |-> FALSE, error |-> NoError, workflowInfo |-> NoWorkflowInfo]

\* Variant: the id parameter is stored whatever the source.
ResolveWorkflowAlwaysId(c) ==
    IF c.source = "parameter" /\ ~JSON_parse(c.workflowJson).ok
    THEN [thrown |-> TRUE,
          error |-> NodeOperationError(NodeName,
              Error(<<"The provided workflow is not valid JSON: \"">>
                    \o JSON_parse(c.workflowJson).error.message \o <<"\"">>)),
          workflowInfo |-> NoWorkflowInfo]
    ELSE [thrown |-> FALSE, error |-> NoError,
          workflowInfo |-> [NoWorkflowInfo EXCEPT
              !.hasId = TRUE,
              !.id = c.workflowId,
              !.hasCode = (c.source = "parameter"),
              !.code = IF c.source = "parameter"
                       THEN JSON_parse(c.workflowJson).value ELSE ""]]

ResolveWorkflow(c) ==
    IF c.source = "database"
    THEN [thrown |-> FALSE, error |-> NoError,
          workflowInfo |-> [NoWorkflowInfo EXCEPT !.hasId = TRUE, !.id = c.workflowId]]
    ELSE IF c.source = "parameter"
    THEN LET parsed == JSON_parse(c.workflowJson)
         IN  IF parsed.ok
             THEN [thrown |-> FALSE, error |-> NoError,
                   workflowInfo |-> [NoWorkflowInfo EXCEPT !.hasCode = TRUE,
                                                           !.code = parsed.value]]
             ELSE [thrown |-> TRUE,
                   error |-> NodeOperationError(NodeName,
                       Error(<<"The provided workflow is not valid JSON: \"">>
                             \o parsed.error.message \o <<"\"">>)),
                   workflowInfo |-> NoWorkflowInfo]
    ELSE [thrown |-> FALSE, error |-> NoError, workflowInfo |-> NoWorkflowInfo]

(***************************************************************************)
(* runFunction, second part: the raw record handed to the Set node's       *)
(* manual mode.                                                            *)
(***************************************************************************)
EmptyObject == [k \in {} |-> <<>>]

SetProperty(object, key, value) ==
    [k \in (DOMAIN object) \cup {key} |-> IF k = key THEN value ELSE object[k]]

\* s.startsWith('=')
StartsWithMarker(s) == Len(s) > 0 /\ s[1] = "="

\* Variant: s.replace(/^=/, ''), only the first marker is removed.
StripOneMarker(s) ==
    IF StartsWithMarker(s) THEN Tail(s) ELSE s

\* s.replace(/^=+/, '')
RECURSIVE StripMarkers(_)
StripMarkers(s) ==
    IF StartsWithMarker(s) THEN StripMarkers(Tail(s)) ELSE s

\* Variant: the kind of the entry is not looked at; any raw value that
\* begins with the marker is stored.
ApplyEntryAnyKind(rawData, entry) ==
    LET raw == CASE entry.type = "objectValue" -> entry.objectValue
                 [] entry.type = "stringValue" -> entry.stringValue
                 [] entry.type = "numberValue" -> entry.numberValue
                 [] entry.type = "booleanValue" -> entry.booleanValue
                 [] entry.type = "arrayValue" -> entry.arrayValue
    IN  IF StartsWithMarker(raw)
        THEN SetProperty(rawData, entry.name, StripMarkers(raw))
        ELSE rawData

ApplyEntry(rawData, entry) ==
    IF entry.type = "objectValue" /\ StartsWithMarker(entry.objectValue)
    THEN SetProperty(rawData, entry.name, StripMarkers(entry.objectValue))
    ELSE rawData

\* Variant: the entries are applied from the last to the first.
RECURSIVE ApplyEntriesReversed(_, _)
ApplyEntriesReversed(rawData, entries) ==
    IF entries = <<>> THEN rawData
    ELSE ApplyEntry(ApplyEntriesReversed(rawData, Tail(entries)), Head(entries))

RECURSIVE ApplyEntries(_, _)
ApplyEntries(rawData, entries) ==
    IF entries = <<>> THEN rawData
    ELSE ApplyEntries(ApplyEntry(rawData, Head(entries)), Tail(entries))

ComposeRawData(q, workflowFieldsJson) ==
    ApplyEntries(SetProperty(EmptyObject, "query", q), workflowFieldsJson)

\* The item the Set node's manual mode resolves with (include: 'all').
ManualExecute(q, rawData) == [json |-> rawData]


(***************************************************************************)
(* What the collaborators can answer.                                      *)
(***************************************************************************)
Queries == {<<"red">>, <<"green,blue">>}

\* Messages of the errors the Set node's manual mode can throw.
MergeErrorMessages == {<<"'extra' is not valid JSON">>}

\* Messages of the errors executeWorkflow can reject with.
EngineErrorMessages == {<<"boom">>}

ResponseValues ==
    { Str(<<"blue">>), Str(<<>>), Num(42), Num(0), Num(-7), Num(105), Bool, Obj, Null }

\* The property the sub-workflow's last node writes its answer to.
AnswerProperty == "response"

NoJson == [p \in ResponsePropertyNames |-> Undefined]

\* An item { json: { [name]: value } }; hasJson = FALSE is an item without json.
Item(name, value) ==
    [hasJson |-> TRUE,
     json |-> [p \in ResponsePropertyNames |-> IF p = name THEN value ELSE Undefined]]

EmptyItem == [hasJson |-> TRUE, json |-> NoJson]

BareItem == [hasJson |-> FALSE, json |-> NoJson]

DecoyItem ==
    [hasJson |-> TRUE, json |-> [p \in ResponsePropertyNames |-> Str(<<"decoy">>)]]

FirstItems ==
    { Item(AnswerProperty, v) : v \in ResponseValues } \cup {EmptyItem, BareItem}

\* The result of executeWorkflow: undefined, or branches of items.
NoResult == [defined |-> FALSE, branches |-> <<>>]

Result(branches) == [defined |-> TRUE, branches |-> branches]

EngineResults ==
    { NoResult, Result(<<>>), Result(<< <<>> >>) }
        \cup { Result(<< <<it>> >>) : it \in FirstItems }
        \cup { Result(<< <<it, DecoyItem>> >>) :
                 it \in {EmptyItem, Item(AnswerProperty, Str(<<"blue">>))} }
        \cup { Result(<< <<it>>, <<DecoyItem>> >>) :
                 it \in {EmptyItem, Item(AnswerProperty, Str(<<"blue">>))} }

\* The results offered to concurrent invocations: a string, a number, an
\* object, and an item without the answer.
SampleResults ==
    { Result(<< <<Item(AnswerProperty, v)>> >>) : v \in {Str(<<"blue">>), Num(42), Obj} }
        \cup { Result(<< <<EmptyItem>> >>) }

(***************************************************************************)
(* runFunction, last part: the response property of the first item of the  *)
(* first branch.                                                           *)
(***************************************************************************)
\* Variant: the first item, in branch order, that has the property.
GetAnyItem(receivedData, name) ==
    LET found == { x \in UNION { {<<b, k>> : k \in 1..Len(receivedData.branches[b])} :
                                   b \in 1..Len(receivedData.branches) } :
                     /\ receivedData.branches[x[1]][x[2]].hasJson
                     /\ receivedData.branches[x[1]][x[2]].json[name].t # "undefined" }
        first == CHOOSE x \in found :
                     \A y \in found : x[1] < y[1] \/ (x[1] = y[1] /\ x[2] <= y[2])
    IN  IF found = {} THEN Undefined
        ELSE receivedData.branches[first[1]][first[2]].json[name]

\* lodash get(receivedData, [0, 0, 'json', name])
Get(receivedData, name) ==
    IF ~receivedData.defined THEN Undefined
    ELSE IF Len(receivedData.branches) < 1 THEN Undefined
    ELSE IF Len(receivedData.branches[1]) < 1 THEN Undefined
    ELSE IF ~receivedData.branches[1][1].hasJson THEN Undefined
    ELSE IF name \notin DOMAIN receivedData.branches[1][1].json THEN Undefined
    ELSE receivedData.branches[1][1].json[name]

\* Variant: the message names the default property, not the configured one.
MissingPropertyMessageDefaultName(name) ==
    <<"There was an error:", " \"", "The workflow ",
      "did not return an item with the property '", "response", "'", "\"">>

MissingPropertyMessage(name) ==
    <<"There was an error:", " \"", "The workflow ",
      "did not return an item with the property '", name, "'", "\"">>

\* A settled promise of runFunction.
Resolved(value) == [state |-> "resolved", value |-> value, error |-> NoError]
Rejected(error) == [state |-> "rejected", value |-> Undefined, error |-> error]
Pending == [state |-> "pending", value |-> Undefined, error |-> NoError]

\* Variant: the response is serialised, which puts a string in quotes.
ExtractResponseQuoted(receivedData, responsePropertyName) ==
    LET response == Get(receivedData, responsePropertyName)
    IN  IF response.t = "undefined"
        THEN Rejected(NodeOperationError(NodeName,
                 Error(MissingPropertyMessage(responsePropertyName))))
        ELSE IF response.t = "string"
        THEN Resolved(Str(<<"\"">> \o response.s \o <<"\"">>))
        ELSE Resolved(response)

\* Variant: receivedData[0][0].json[name], which throws a TypeError when a
\* level on the way is missing.
ExtractResponseByIndexing(receivedData, responsePropertyName) ==
    IF \/ ~receivedData.defined
       \/ Len(receivedData.branches) < 1
       \/ Len(receivedData.branches[1]) < 1
       \/ ~receivedData.branches[1][1].hasJson
    THEN Rejected(Error(<<"Cannot read properties of undefined">>))
    ELSE IF Get(receivedData, responsePropertyName).t = "undefined"
    THEN Rejected(NodeOperationError(NodeName,
             Error(MissingPropertyMessage(responsePropertyName))))
    ELSE Resolved(Get(receivedData, responsePropertyName))

\* Variant: if (!response), which also takes "", 0 and null for missing.
ExtractResponseTruthy(receivedData, responsePropertyName) ==
    LET response == Get(receivedData, responsePropertyName)
    IN  IF \/ response.t \in {"undefined", "null"}
           \/ response.t = "string" /\ response.s = <<>>
           \/ response.t = "number" /\ response.n = 0
        THEN Rejected(NodeOperationError(NodeName,
                 Error(MissingPropertyMessage(responsePropertyName))))
        ELSE Resolved(response)

ExtractResponse(receivedData, responsePropertyName) ==
    LET response == Get(receivedData, responsePropertyName)
    IN  IF response.t = "undefined"
        THEN Rejected(NodeOperationError(NodeName,
                 Error(MissingPropertyMessage(responsePropertyName))))
        ELSE Resolved(response)

\* Variant: the catch throws an error of its own and loses the engine's message.
WrapEngineErrorOwnMessage(error) ==
    Rejected(NodeOperationError(NodeName, Error(<<"Error executing the workflow">>)))

\* The catch around executeWorkflow.
WrapEngineError(error) == Rejected(NodeOperationError(NodeName, error))

(***************************************************************************)
(* func, after runFunction has settled: fold the outcome into text.        *)
(***************************************************************************)
\* Variant: no catch, the rejection of runFunction leaves func.
AwaitRunFunctionNoCatch(outcome) ==
    IF outcome.state = "rejected"
    THEN [rejects |-> TRUE, response |-> Str(<<>>), executionError |-> NoError]
    ELSE [rejects |-> FALSE, response |-> outcome.value, executionError |-> NoError]

\* Variant: the catch builds the text but does not keep the error.
AwaitRunFunctionDropsError(outcome) ==
    IF outcome.state = "rejected"
    THEN [rejects |-> FALSE, response |-> Str(ThereWasAnError(outcome.error.message)),
          executionError |-> NoError]
    ELSE [rejects |-> FALSE, response |-> outcome.value, executionError |-> NoError]

\* try { response = await runFunction(query) } catch (error) { ... }
AwaitRunFunction(outcome) ==
    IF outcome.state = "rejected"
    THEN [rejects |-> FALSE, response |-> Str(ThereWasAnError(outcome.error.message)),
          executionError |-> outcome.error]
    ELSE [rejects |-> FALSE, response |-> outcome.value, executionError |-> NoError]

\* Variant: numbers are not converted.
ConvertNumberSkipped(r) == r

\* if (typeof response === 'number') response = response.toString()
ConvertNumber(r) ==
    IF TypeOf(r.response) = "number"
    THEN [r EXCEPT !.response = Str(NumberToString(r.response.n))]
    ELSE r

InvalidTypeMessage(type) ==
    <<"The code did not return a valid value. Instead of a string did a value of type ",
      "'", type, "'", " get returned.">>

\* Variant: the error is kept but the response is not rewritten.
RequireStringKeepsResponse(r) ==
    IF TypeOf(r.response) # "string"
    THEN [r EXCEPT !.executionError =
             NodeOperationError(NodeName, Error(InvalidTypeMessage(TypeOf(r.response))))]
    ELSE r

\* Variant: a value that is no string is coerced with String() and passes.
RequireStringCoerces(r) ==
    IF TypeOf(r.response) # "string"
    THEN [r EXCEPT !.response = Str(<<"[", TypeOf(r.response), "]">>)]
    ELSE r

\* if (typeof response !== 'string') { executionError = ...; response = ... }
RequireString(r) ==
    IF TypeOf(r.response) # "string"
    THEN LET executionError ==
                 NodeOperationError(NodeName,
                     Error(InvalidTypeMessage(TypeOf(r.response))))
         IN  [r EXCEPT !.executionError = executionError,
                       !.response = Str(ThereWasAnError(executionError.message))]
    ELSE r

Normalize(outcome) ==
    IF AwaitRunFunction(outcome).rejects
    THEN AwaitRunFunction(outcome)
    ELSE RequireString(ConvertNumber(AwaitRunFunction(outcome)))

(***************************************************************************)
(* Execution trace of the node: per run index, the input events and the    *)
(* output events recorded under it.  inv names the invocation that         *)
(* recorded the event.                                                     *)
(***************************************************************************)
RunIndexes == 0..(NumInvocations - 1)

NoRunData == [k \in RunIndexes |-> [input |-> <<>>, output |-> <<>>]]

\* [[{ json: { query } }]]
InputEvent(i, q) == [inv |-> i, data |-> Str(q), error |-> NoError]

\* The payload of addOutputData: executionError, or [[{ json: { response } }]].
OutputEvent(i, r) ==
    IF r.executionError.isError
    THEN [inv |-> i, data |-> Undefined, error |-> r.executionError]
    ELSE [inv |-> i, data |-> r.response, error |-> NoError]

\* addInputData: the next free run index of the node.
AddInputData(trace) ==
    Cardinality({k \in RunIndexes : trace[k].input # <<>>})

RecordInput(trace, runIndex, event) ==
    [trace EXCEPT ![runIndex].input = Append(@, event)]

\* addOutputData
RecordOutput(trace, runIndex, event) ==
    [trace EXCEPT ![runIndex].output = Append(@, event)]

RECURSIVE RecordOutputs(_, _)
RecordOutputs(trace, calls) ==
    IF calls = <<>> THEN trace
    ELSE RecordOutputs(RecordOutput(trace, Head(calls).index, Head(calls).event),
                       Tail(calls))


(***************************************************************************)
(* State.                                                                  *)
(***************************************************************************)
VARIABLES
    toolState,     \* supplyData: "unbuilt", "ready" (tool returned) or "failed"
    cfg,           \* the node parameters
    pc,            \* per invocation: "idle", "merge", "engine", "settled", "returned"
    query,         \* per invocation: the query it was called with
    index,         \* per invocation: the index addInputData returned (-1: none yet)
    workflowInfo,  \* per invocation: runFunction's workflowInfo
    mergeCalls,    \* per invocation: the calls of manual.execute, with their rawData
    execCalls,     \* per invocation: the calls of executeWorkflow, with their arguments
    received,      \* per invocation: how executeWorkflow settled
    settled,       \* per invocation: the promise of runFunction
    ret,           \* per invocation: the promise func returned to the agent
    runData        \* the node's execution trace, by run index

\* The editor's router (router.ts): the navigation guard of one navigation
\* at a time.
VARIABLES
    navPc,          \* the guard: "idle", "init" (awaits initializeCore),
                    \* "middleware" (awaits a middleware) or "done"
    to,             \* the route the navigation goes to
    from,           \* the name of the route it comes from
    showSetupPage,  \* settingsStore.showSetupPage
    ran,            \* the names of the middlewares called in this navigation
    nextLog,        \* the calls of next in this navigation
    navigations     \* how many navigations have started

toolVars ==
    <<toolState, cfg, pc, query, index, workflowInfo, mergeCalls, execCalls,
      received, settled, ret, runData>>

routerVars == <<navPc, to, from, showSetupPage, ran, nextLog, navigations>>

vars == <<toolVars, routerVars>>

\* A route record: its name and meta.middleware (hasMeta = FALSE: no meta).
Route(name, hasMeta, middleware) ==
    [name |-> name, hasMeta |-> hasMeta, middleware |-> middleware]

NoRoute == Route("", FALSE, <<>>)

\* No navigation has started.
NoNavigation ==
    /\ navPc = "idle"
    /\ to = NoRoute
    /\ from = ""
    /\ showSetupPage = FALSE
    /\ ran = <<>>
    /\ nextLog = <<>>
    /\ navigations = 0

NotReceived == [state |-> "none", data |-> NoResult, message |-> <<>>]

Init ==
    /\ toolState = "unbuilt"
    /\ cfg \in {c \in Configs : ValidConfig(c)}
    /\ pc = [i \in Invocations |-> "idle"]
    /\ query = [i \in Invocations |-> <<>>]
    /\ index = [i \in Invocations |-> -1]
    /\ workflowInfo = [i \in Invocations |-> NoWorkflowInfo]
    /\ mergeCalls = [i \in Invocations |-> <<>>]
    /\ execCalls = [i \in Invocations |-> <<>>]
    /\ received = [i \in Invocations |-> NotReceived]
    /\ settled = [i \in Invocations |-> Pending]
    /\ ret = [i \in Invocations |-> Pending]
    /\ runData = NoRunData
    /\ NoNavigation

\* supplyData reads name and description and returns the tool; reading a
\* parameter may throw, and then no tool exists.
SupplyData ==
    /\ toolState = "unbuilt"
    /\ \E readable \in BOOLEAN :
           toolState' = IF readable THEN "ready" ELSE "failed"
    /\ UNCHANGED <<cfg, pc, query, index, workflowInfo, mergeCalls, execCalls,
                   received, settled, ret, runData>>
    /\ UNCHANGED routerVars

\* Variant: func can be called although supplyData threw.
InvokeWithoutTool(i, q) ==
    /\ toolState \in {"ready", "failed"}
    /\ pc[i] = "idle"
    /\ \A j \in Invocations : j < i => pc[j] # "idle"
    /\ query' = [query EXCEPT ![i] = q]
    /\ index' = [index EXCEPT ![i] = AddInputData(runData)]
    /\ runData' = RecordInput(runData, AddInputData(runData), InputEvent(i, q))
    /\ IF ResolveWorkflow(cfg).thrown
       THEN /\ settled' = [settled EXCEPT ![i] = Rejected(ResolveWorkflow(cfg).error)]
            /\ pc' = [pc EXCEPT ![i] = "settled"]
            /\ UNCHANGED <<workflowInfo, mergeCalls>>
       ELSE /\ workflowInfo' =
                   [workflowInfo EXCEPT ![i] = ResolveWorkflow(cfg).workflowInfo]
            /\ mergeCalls' = [mergeCalls EXCEPT ![i] =
                   Append(@, [rawData |-> ComposeRawData(q, cfg.fields)])]
            /\ pc' = [pc EXCEPT ![i] = "merge"]
            /\ UNCHANGED settled
    /\ UNCHANGED <<toolState, cfg, execCalls, received, ret>>
    /\ UNCHANGED routerVars

\* func(query) up to its first suspension: the input event, then runFunction
\* up to its await of manual.execute (or its throw on an unparsable document).
\* Invocations are numbered in the order the agent issues them.
Invoke(i, q) ==
    /\ toolState = "ready"
    /\ pc[i] = "idle"
    /\ \A j \in Invocations : j < i => pc[j] # "idle"
    /\ query' = [query EXCEPT ![i] = q]
    /\ index' = [index EXCEPT ![i] = AddInputData(runData)]
    /\ runData' = RecordInput(runData, AddInputData(runData), InputEvent(i, q))
    /\ IF ResolveWorkflow(cfg).thrown
       THEN /\ settled' = [settled EXCEPT ![i] = Rejected(ResolveWorkflow(cfg).error)]
            /\ pc' = [pc EXCEPT ![i] = "settled"]
            /\ UNCHANGED <<workflowInfo, mergeCalls>>
       ELSE /\ workflowInfo' =
                   [workflowInfo EXCEPT ![i] = ResolveWorkflow(cfg).workflowInfo]
            /\ mergeCalls' = [mergeCalls EXCEPT ![i] =
                   Append(@, [rawData |-> ComposeRawData(q, cfg.fields)])]
            /\ pc' = [pc EXCEPT ![i] = "merge"]
            /\ UNCHANGED settled
    /\ UNCHANGED <<toolState, cfg, execCalls, received, ret>>
    /\ UNCHANGED routerVars

\* manual.execute resolves: runFunction calls executeWorkflow with the new item.
MergeResolves(i) ==
    /\ pc[i] = "merge"
    /\ execCalls' = [execCalls EXCEPT ![i] =
           Append(@, [workflowInfo |-> workflowInfo[i],
                      items |-> <<ManualExecute(query[i], mergeCalls[i][1].rawData)>>])]
    /\ pc' = [pc EXCEPT ![i] = "engine"]
    /\ UNCHANGED <<toolState, cfg, query, index, workflowInfo, mergeCalls,
                   received, settled, ret, runData>>
    /\ UNCHANGED routerVars

\* manual.execute throws: runFunction rejects with that error.
MergeRejects(i, message) ==
    /\ pc[i] = "merge"
    /\ settled' = [settled EXCEPT ![i] =
           Rejected(NodeOperationError(NodeName, Error(message)))]
    /\ pc' = [pc EXCEPT ![i] = "settled"]
    /\ UNCHANGED <<toolState, cfg, query, index, workflowInfo, mergeCalls,
                   execCalls, received, ret, runData>>
    /\ UNCHANGED routerVars

\* executeWorkflow resolves: runFunction extracts the response and settles.
EngineResolves(i, receivedData) ==
    /\ pc[i] = "engine"
    /\ received' = [received EXCEPT ![i] =
           [state |-> "resolved", data |-> receivedData, message |-> <<>>]]
    /\ settled' = [settled EXCEPT ![i] =
           ExtractResponse(receivedData, cfg.responsePropertyName)]
    /\ pc' = [pc EXCEPT ![i] = "settled"]
    /\ UNCHANGED <<toolState, cfg, query, index, workflowInfo, mergeCalls,
                   execCalls, ret, runData>>
    /\ UNCHANGED routerVars

\* Variant: a rejected executeWorkflow is called once more before giving up.
EngineRejectsRetries(i, message) ==
    /\ pc[i] = "engine"
    /\ received' = [received EXCEPT ![i] =
           [state |-> "rejected", data |-> NoResult, message |-> message]]
    /\ IF Len(execCalls[i]) < 2
       THEN /\ execCalls' = [execCalls EXCEPT ![i] = Append(@, @[1])]
            /\ UNCHANGED <<settled, pc>>
       ELSE /\ settled' = [settled EXCEPT ![i] = WrapEngineError(Error(message))]
            /\ pc' = [pc EXCEPT ![i] = "settled"]
            /\ UNCHANGED execCalls
    /\ UNCHANGED <<toolState, cfg, query, index, workflowInfo, mergeCalls,
                   ret, runData>>
    /\ UNCHANGED routerVars

\* executeWorkflow rejects: runFunction rejects with the wrapped error.
EngineRejects(i, message) ==
    /\ pc[i] = "engine"
    /\ received' = [received EXCEPT ![i] =
           [state |-> "rejected", data |-> NoResult, message |-> message]]
    /\ settled' = [settled EXCEPT ![i] = WrapEngineError(Error(message))]
    /\ pc' = [pc EXCEPT ![i] = "settled"]
    /\ UNCHANGED <<toolState, cfg, query, index, workflowInfo, mergeCalls,
                   execCalls, ret, runData>>
    /\ UNCHANGED routerVars

\* Variant: the else is missing, the response is recorded after the error.
OutputCallsWithoutElse(i, r) ==
    IF r.executionError.isError
    THEN << [index |-> index[i], event |-> OutputEvent(i, r)],
            [index |-> index[i],
             event |-> OutputEvent(i, [r EXCEPT !.executionError = NoError])] >>
    ELSE << [index |-> index[i], event |-> OutputEvent(i, r)] >>

\* Variant: the index is read from the node (the latest one handed out)
\* instead of the invocation's own constant.
OutputCallsLatestIndex(i, r) ==
    << [index |-> AddInputData(runData) - 1, event |-> OutputEvent(i, r)] >>

\* The calls of addOutputData func makes for outcome r: one, under the
\* invocation's own index, with either the error or the response.
OutputCalls(i, r) ==
    << [index |-> index[i], event |-> OutputEvent(i, r)] >>

\* Variant: runFunction is not awaited; func goes on with the promise itself
\* while the merge transform or the engine is still at work.
FuncResumeWithoutAwait(i) ==
    /\ pc[i] \in {"merge", "engine", "settled"}
    /\ runData' = RecordOutputs(runData,
           OutputCalls(i, Normalize(IF pc[i] = "settled" THEN settled[i]
                                    ELSE Resolved(Obj))))
    /\ ret' = [ret EXCEPT ![i] =
           Resolved(Normalize(IF pc[i] = "settled" THEN settled[i]
                              ELSE Resolved(Obj)).response)]
    /\ pc' = [pc EXCEPT ![i] = "returned"]
    /\ UNCHANGED <<toolState, cfg, query, index, workflowInfo, mergeCalls,
                   execCalls, received, settled>>
    /\ UNCHANGED routerVars

\* Variant: the outcome is read from a place the invocations share, where the
\* invocation with the highest number that has settled wrote last.
FuncResumeSharedOutcome(i) ==
    LET last == CHOOSE j \in Invocations :
                    /\ pc[j] \in {"settled", "returned"}
                    /\ \A k \in Invocations :
                           pc[k] \in {"settled", "returned"} => k <= j
    IN  /\ pc[i] = "settled"
        /\ runData' = RecordOutputs(runData, OutputCalls(i, Normalize(settled[last])))
        /\ ret' = [ret EXCEPT ![i] = Resolved(Normalize(settled[last]).response)]
        /\ pc' = [pc EXCEPT ![i] = "returned"]
        /\ UNCHANGED <<toolState, cfg, query, index, workflowInfo, mergeCalls,
                       execCalls, received, settled>>
        /\ UNCHANGED routerVars

\* Variant: func has no catch and goes on only when runFunction resolved;
\* after a rejection it never reports.
FuncResumeOnlyResolved(i) ==
    /\ pc[i] = "settled"
    /\ settled[i].state = "resolved"
    /\ runData' = RecordOutputs(runData, OutputCalls(i, Normalize(settled[i])))
    /\ ret' = [ret EXCEPT ![i] = Resolved(Normalize(settled[i]).response)]
    /\ pc' = [pc EXCEPT ![i] = "returned"]
    /\ UNCHANGED <<toolState, cfg, query, index, workflowInfo, mergeCalls,
                   execCalls, received, settled>>
    /\ UNCHANGED routerVars

\* Variant: addOutputData is awaited; func records the output event in one
\* step and returns in a later one.
FuncResumeAwaitsOutput(i) ==
    /\ pc[i] = "settled"
    /\ IF runData[index[i]].output = <<>>
       THEN /\ runData' = RecordOutputs(runData, OutputCalls(i, Normalize(settled[i])))
            /\ UNCHANGED <<ret, pc>>
       ELSE /\ ret' = [ret EXCEPT ![i] = Resolved(Normalize(settled[i]).response)]
            /\ pc' = [pc EXCEPT ![i] = "returned"]
            /\ UNCHANGED runData
    /\ UNCHANGED <<toolState, cfg, query, index, workflowInfo, mergeCalls,
                   execCalls, received, settled>>
    /\ UNCHANGED routerVars

\* func resumes after its await: normalisation, the output event, the return.
FuncResume(i) ==
    /\ pc[i] = "settled"
    /\ IF Normalize(settled[i]).rejects
       THEN /\ ret' = [ret EXCEPT ![i] = Rejected(settled[i].error)]
            /\ UNCHANGED runData
       ELSE /\ runData' = RecordOutputs(runData, OutputCalls(i, Normalize(settled[i])))
            /\ ret' = [ret EXCEPT ![i] = Resolved(Normalize(settled[i]).response)]
    /\ pc' = [pc EXCEPT ![i] = "returned"]
    /\ UNCHANGED <<toolState, cfg, query, index, workflowInfo, mergeCalls,
                   execCalls, received, settled>>
    /\ UNCHANGED routerVars

\* One step of the system: supplyData, or a step of one of the invocations
\* `calls`, the sub-workflow answering with one of `results`.
Step(calls, results) ==
    \/ SupplyData
    \/ \E i \in calls, q \in Queries : Invoke(i, q)
    \/ \E i \in calls : MergeResolves(i)
    \/ \E i \in calls, m \in MergeErrorMessages : MergeRejects(i, m)
    \/ \E i \in calls, r \in results : EngineResolves(i, r)
    \/ \E i \in calls, m \in EngineErrorMessages : EngineRejects(i, m)
    \/ \E i \in calls : FuncResume(i)

\* Concurrent invocations.
Next == Step(Invocations, SampleResults)

Spec == Init /\ [][Next]_vars

\* Concurrent invocations of a tool without overrides, the sub-workflow
\* answering with a string or without the property, under the condition that
\* each collaborator call eventually completes or fails and that the host
\* runs the continuation of a settled await.
LiveResults ==
    { Result(<< <<Item(AnswerProperty, Str(<<"blue">>))>> >>),
      Result(<< <<EmptyItem>> >>) }

InitLive ==
    /\ Init
    /\ cfg.fields = <<>>
    /\ cfg.responsePropertyName = AnswerProperty
    /\ cfg.workflowJson \in {DefaultWorkflowJson, <<"{", "}">>, <<"{", "n", "o", "t">>}

NextLive == Step(Invocations, LiveResults)

CollaboratorsAnswer ==
    \A i \in Invocations :
        /\ WF_vars(MergeResolves(i)
                      \/ \E m \in MergeErrorMessages : MergeRejects(i, m))
        /\ WF_vars((\E r \in LiveResults : EngineResolves(i, r))
                      \/ \E m \in EngineErrorMessages : EngineRejects(i, m))
        /\ WF_vars(FuncResume(i))

SpecLive == InitLive /\ [][NextLive]_vars /\ CollaboratorsAnswer

\* A single invocation, over every result the sub-workflow can answer with.
NextOne == Step({1}, EngineResults)

SpecOne == Init /\ [][NextOne]_vars

\* A single invocation of a tool read from the database, over the
\* fields.values collections of up to MaxFields entries.
InitCompose ==
    /\ toolState = "unbuilt"
    /\ cfg \in { [source |-> "database", workflowId |-> id,
                  workflowJson |-> DefaultWorkflowJson,
                  responsePropertyName |-> AnswerProperty, fields |-> f] :
                    id \in WorkflowIds, f \in FieldListsUpTo(MaxFields) }
    /\ pc = [i \in Invocations |-> "idle"]
    /\ query = [i \in Invocations |-> <<>>]
    /\ index = [i \in Invocations |-> -1]
    /\ workflowInfo = [i \in Invocations |-> NoWorkflowInfo]
    /\ mergeCalls = [i \in Invocations |-> <<>>]
    /\ execCalls = [i \in Invocations |-> <<>>]
    /\ received = [i \in Invocations |-> NotReceived]
    /\ settled = [i \in Invocations |-> Pending]
    /\ ret = [i \in Invocations |-> Pending]
    /\ runData = NoRunData
    /\ NoNavigation

NextCompose == Step({1}, SampleResults)

SpecCompose == InitCompose /\ [][NextCompose]_vars


(***************************************************************************)
(* router.beforeEach: the navigation guard.                                *)
(***************************************************************************)
\* The routes navigated to: the setup view, the sign-in view, the workflows
\* view, the SSO settings, and a route without meta.
Routes ==
    { Route("SETUP", TRUE, <<"role">>),
      Route("SIGNIN", TRUE, <<"guest">>),
      Route("WORKFLOWS", TRUE, <<"authenticated">>),
      Route("SSO_SETTINGS", TRUE, <<"authenticated", "role", "custom">>),
      Route("NOT_NAMED", FALSE, <<>>) }

\* The most navigations followed.
MaxNavigations == 2

\* to.meta?.middleware ?? []
RouteMiddleware(route) == IF route.hasMeta THEN route.middleware ELSE <<>>

\* What a middleware does with its next before it resolves: nothing, or one
\* call with the location it redirects to.
NoCall == [called |-> FALSE, location |-> ""]
Redirect(name) == [called |-> TRUE, location |-> name]
MiddlewareOutcomes == { NoCall, Redirect("SIGNIN"), Redirect("HOMEPAGE") }

\* A call of next: by the setup check, by a middleware (through
\* middlewareNext) or the last statement of the guard; location "" is next().
NextCall(by, location) == [by |-> by, location |-> location]

\* A navigation starts: the guard is called and awaits initializeCore.
Navigate(route) ==
    /\ navPc \in {"idle", "done"}
    /\ navigations < MaxNavigations
    /\ navigations' = navigations + 1
    /\ from' = to.name
    /\ to' = route
    /\ ran' = <<>>
    /\ nextLog' = <<>>
    /\ navPc' = "init"
    /\ UNCHANGED showSetupPage
    /\ UNCHANGED toolVars

\* The loop over the middlewares from position k on, up to its next await:
\* the call of middleware k, or, after the last one, return next().
RunMiddlewareFrom(k) ==
    IF k <= Len(RouteMiddleware(to))
    THEN /\ ran' = Append(ran, RouteMiddleware(to)[k])
         /\ navPc' = "middleware"
         /\ UNCHANGED nextLog
    ELSE /\ nextLog' = Append(nextLog, NextCall("final", ""))
         /\ navPc' = "done"
         /\ UNCHANGED ran

\* Variant: the returns of the setup check are missing; after its call of
\* next the guard goes on with the middlewares.
CoreInitializedWithoutReturn(show) ==
    /\ navPc = "init"
    /\ showSetupPage' = show
    /\ IF show
       THEN /\ nextLog' = Append(nextLog,
                   NextCall("setup", IF to.name = "SETUP" THEN "" ELSE "SETUP"))
            /\ IF RouteMiddleware(to) # <<>>
               THEN ran' = Append(ran, RouteMiddleware(to)[1]) /\ navPc' = "middleware"
               ELSE ran' = ran /\ navPc' = "done"
       ELSE RunMiddlewareFrom(1)
    /\ UNCHANGED <<to, from, navigations>>
    /\ UNCHANGED toolVars

\* initializeCore resolves (it loads the settings): the setup check, then
\* the loop up to its first await.
CoreInitialized(show) ==
    /\ navPc = "init"
    /\ showSetupPage' = show
    /\ IF show
       THEN /\ nextLog' = Append(nextLog,
                   NextCall("setup", IF to.name = "SETUP" THEN "" ELSE "SETUP"))
            /\ navPc' = "done"
            /\ UNCHANGED ran
       ELSE RunMiddlewareFrom(1)
    /\ UNCHANGED <<to, from, navigations>>
    /\ UNCHANGED toolVars

\* Variant: if (nextCalled) return is missing; the loop goes on after a
\* middleware that called next.
MiddlewareSettlesWithoutReturn(outcome) ==
    /\ navPc = "middleware"
    /\ IF Len(ran) + 1 <= Len(RouteMiddleware(to))
       THEN /\ nextLog' = IF outcome.called
                           THEN Append(nextLog, NextCall("middleware", outcome.location))
                           ELSE nextLog
            /\ ran' = Append(ran, RouteMiddleware(to)[Len(ran) + 1])
            /\ navPc' = "middleware"
       ELSE /\ nextLog' = (IF outcome.called
                            THEN Append(nextLog, NextCall("middleware", outcome.location))
                            ELSE nextLog) \o << NextCall("final", "") >>
            /\ navPc' = "done"
            /\ UNCHANGED ran
    /\ UNCHANGED <<to, from, showSetupPage, navigations>>
    /\ UNCHANGED toolVars

\* The awaited middleware resolves, having called middlewareNext or not: the
\* guard returns if it did, and goes on with the loop if not.
MiddlewareSettles(outcome) ==
    /\ navPc = "middleware"
    /\ IF outcome.called
       THEN /\ nextLog' = Append(nextLog, NextCall("middleware", outcome.location))
            /\ navPc' = "done"
            /\ UNCHANGED ran
       ELSE RunMiddlewareFrom(Len(ran) + 1)
    /\ UNCHANGED <<to, from, showSetupPage, navigations>>
    /\ UNCHANGED toolVars

InitRouter ==
    /\ Init
    /\ cfg.source = "database"
    /\ cfg.fields = <<>>
    /\ cfg.responsePropertyName = AnswerProperty

NextRouter ==
    \/ \E route \in Routes : Navigate(route)
    \/ \E show \in BOOLEAN : CoreInitialized(show)
    \/ \E outcome \in MiddlewareOutcomes : MiddlewareSettles(outcome)

SpecRouter == InitRouter /\ [][NextRouter]_vars


(***************************************************************************)
(* Properties.                                                             *)
(***************************************************************************)
\* s occurs in text as a contiguous run of fragments.
Contains(text, s) ==
    \E k \in 0..(Len(text) - Len(s)) : SubSeq(text, k + 1, k + Len(s)) = s

StartsWith(text, s) ==
    Len(s) <= Len(text) /\ SubSeq(text, 1, Len(s)) = s

\* The places <<run index, position>> of the events invocation i recorded.
InputsOf(i) ==
    { x \in UNION { {<<k, n>> : n \in 1..Len(runData[k].input)} : k \in RunIndexes } :
        runData[x[1]].input[x[2]].inv = i }

OutputsOf(i) ==
    { x \in UNION { {<<k, n>> : n \in 1..Len(runData[k].output)} : k \in RunIndexes } :
        runData[x[1]].output[x[2]].inv = i }

Returned(i) == pc[i] = "returned"

\* The ways an invocation fails, read off what happened to it.
ParseFailed(i) ==
    pc[i] \in {"settled", "returned"} /\ mergeCalls[i] = <<>>

MergeFailed(i) ==
    pc[i] \in {"settled", "returned"} /\ mergeCalls[i] # <<>> /\ execCalls[i] = <<>>

EngineFailed(i) == received[i].state = "rejected"

\* The value the first item of the first branch holds under the configured
\* property, when the engine's result has such an item with a json mapping.
HasFirstItem(i) ==
    /\ received[i].state = "resolved"
    /\ received[i].data.defined
    /\ Len(received[i].data.branches) >= 1
    /\ Len(received[i].data.branches[1]) >= 1
    /\ received[i].data.branches[1][1].hasJson

FirstItemValue(i) ==
    received[i].data.branches[1][1].json[cfg.responsePropertyName]

\* C1: invoke never rejects: whatever the resolver, the merge transform, the
\* engine and the extractor did, a finished invocation has resolved with a
\* string, and no invocation ever holds a rejected promise.
InvokeNeverRejects ==
    \A i \in Invocations :
        /\ ret[i].state # "rejected"
        /\ Returned(i) => ret[i].state = "resolved" /\ ret[i].value.t = "string"
        /\ ~Returned(i) => ret[i].state = "pending"

\* Two invocations have returned, one after the engine rejected and one after
\* the extractor found no response.
InvokeNeverRejectsWitness ==
    \E i, j \in Invocations :
        /\ Returned(i) /\ EngineFailed(i)
        /\ Returned(j) /\ received[j].state = "resolved" /\ settled[j].state = "rejected"

\* C2: a returned invocation has recorded exactly one input event and exactly
\* one output event, both under the index addInputData returned to it; no
\* invocation ever has more than one of either.
OneInputOneOutputPerInvocation ==
    \A i \in Invocations :
        /\ Cardinality(InputsOf(i)) <= 1
        /\ Cardinality(OutputsOf(i)) <= 1
        /\ Returned(i) =>
              /\ index[i] \in RunIndexes
              /\ \E n \in 1..Len(runData[index[i]].input) : InputsOf(i) = {<<index[i], n>>}
              /\ \E n \in 1..Len(runData[index[i]].output) : OutputsOf(i) = {<<index[i], n>>}

\* Two invocations have returned, one with an error and one with a response.
OneInputOneOutputWitness ==
    \E i, j \in Invocations :
        /\ Returned(i) /\ settled[i].state = "rejected"
        /\ Returned(j) /\ settled[j].state = "resolved" /\ settled[j].value.t = "string"

\* C3: indexes are handed out in invocation order at the start of each
\* invocation, and every output event lies under the index of the input event
\* of the invocation that recorded it, whatever the order of completion.
OutputUnderOwnIndex ==
    /\ \A i \in Invocations : pc[i] # "idle" => index[i] = i - 1
    /\ \A i \in Invocations : pc[i] = "idle" => index[i] = -1
    /\ \A k \in RunIndexes :
           \A n \in 1..Len(runData[k].output) :
               /\ Len(runData[k].input) = 1
               /\ runData[k].input[1].inv = runData[k].output[n].inv
               /\ index[runData[k].output[n].inv] = k

\* The later invocation has returned while the earlier one is still waiting
\* for the merge transform or the engine.
OutOfOrderCompletion ==
    \E i, j \in Invocations :
        /\ i < j
        /\ pc[i] \in {"merge", "engine"}
        /\ Returned(j)
        /\ Len(runData[index[j]].output) = 1


\* The output events of invocation i are exactly one error event holding e.
ErrorOutput(i, e) ==
    /\ e.isError
    /\ runData[index[i]].output = << [inv |-> i, data |-> Undefined, error |-> e] >>

\* The output events of invocation i are exactly one success event
\* [[{ json: { response: text } }]].
SuccessOutput(i, text) ==
    runData[index[i]].output = << [inv |-> i, data |-> Str(text), error |-> NoError] >>

ResponseMissing(i) ==
    /\ received[i].state = "resolved"
    /\ HasFirstItem(i) => FirstItemValue(i).t = "undefined"

InvalidResponseType(i) ==
    HasFirstItem(i) /\ FirstItemValue(i).t \in {"boolean", "object", "null"}

\* C4: on every failing path (unparsable inline workflow, merge transform
\* failure, engine failure, missing response property, invalid response type)
\* the returned invocation has recorded one output event, and its payload is
\* the error of that failure, not a response.
ErrorRecordedOnEveryFailure ==
    \A i \in Invocations : Returned(i) =>
        /\ ParseFailed(i) =>
              /\ ErrorOutput(i, settled[i].error)
              /\ StartsWith(settled[i].error.message,
                            <<"The provided workflow is not valid JSON: \"">>)
        /\ MergeFailed(i) =>
              /\ ErrorOutput(i, settled[i].error)
              /\ settled[i].error.message \in MergeErrorMessages
        /\ EngineFailed(i) =>
              /\ ErrorOutput(i, settled[i].error)
              /\ settled[i].error.message = received[i].message
        /\ ResponseMissing(i) =>
              /\ ErrorOutput(i, settled[i].error)
              /\ Contains(settled[i].error.message,
                          <<"did not return an item with the property '">>)
        /\ InvalidResponseType(i) =>
              \E e \in {runData[index[i]].output[n].error :
                            n \in 1..Len(runData[index[i]].output)} :
                  /\ ErrorOutput(i, e)
                  /\ StartsWith(e.message,
                         <<"The code did not return a valid value. Instead of a string did a value of type ">>)

\* Two invocations have returned, one after the merge transform failed and one
\* after the sub-workflow answered with an object.
ErrorRecordedWitness ==
    \E i, j \in Invocations :
        /\ Returned(i) /\ MergeFailed(i)
        /\ Returned(j) /\ InvalidResponseType(j)

\* C5: when the first item of the first branch holds a string s under the
\* configured property, invoke returns s unchanged and the invocation's only
\* output event is the success payload { response: s }.
StringResponseReturnedUnchanged ==
    \A i \in Invocations :
        (Returned(i) /\ HasFirstItem(i) /\ FirstItemValue(i).t = "string") =>
            /\ ret[i] = Resolved(Str(FirstItemValue(i).s))
            /\ SuccessOutput(i, FirstItemValue(i).s)

\* The sub-workflow answered { response: "blue" } and the invocation returned.
StringResponseWitness ==
    \E i \in Invocations :
        /\ Returned(i) /\ HasFirstItem(i)
        /\ FirstItemValue(i) = Str(<<"blue">>)
        /\ cfg.responsePropertyName = "response"

\* C6: when executeWorkflow rejects with message m, runFunction rejects with a
\* NodeOperationError of the node carrying m, invoke resolves to a string
\* containing `There was an error: "m"`, and the output event is that error.
EngineErrorWrapped ==
    \A i \in Invocations : EngineFailed(i) =>
        /\ settled[i].state = "rejected"
        /\ settled[i].error =
               [isError |-> TRUE, class |-> "NodeOperationError",
                message |-> received[i].message, node |-> NodeName]
        /\ Returned(i) =>
              /\ ret[i].state = "resolved"
              /\ ret[i].value.t = "string"
              /\ Contains(ret[i].value.s,
                     <<"There was an error:", " \"">> \o received[i].message \o <<"\"">>)
              /\ ErrorOutput(i, settled[i].error)

\* The engine rejected with "boom" and the invocation returned.
EngineErrorWitness ==
    \E i \in Invocations :
        Returned(i) /\ EngineFailed(i) /\ received[i].message = <<"boom">>

\* C7: with source parameter and a workflow document that does not parse, an
\* invocation calls neither the merge transform nor the engine, resolves with
\* a string containing the parser's message, and records the error.
ParseFailureStopsInvocation ==
    (cfg.source = "parameter" /\ ~JSON_parse(cfg.workflowJson).ok) =>
        \A i \in Invocations :
            /\ mergeCalls[i] = <<>>
            /\ execCalls[i] = <<>>
            /\ pc[i] \in {"idle", "settled", "returned"}
            /\ Returned(i) =>
                  /\ ret[i].state = "resolved"
                  /\ ret[i].value.t = "string"
                  /\ Contains(ret[i].value.s, JSON_parse(cfg.workflowJson).error.message)
                  /\ cfg.workflowJson = <<"{", "n", "o", "t">> =>
                        Contains(ret[i].value.s,
                            <<"Unexpected token ", "n", " in JSON at position ", "1">>)
                  /\ ErrorOutput(i, settled[i].error)
                  /\ settled[i].error.class = "NodeOperationError"
                  /\ Contains(settled[i].error.message,
                              JSON_parse(cfg.workflowJson).error.message)

\* An invocation has returned under source parameter with the document "{not".
ParseFailureWitness ==
    \E i \in Invocations :
        /\ Returned(i)
        /\ cfg.source = "parameter"
        /\ cfg.workflowJson = <<"{", "n", "o", "t">>

\* C8: when the first item of the first branch has no field named by the
\* configured property p, runFunction fails with an error whose message names
\* p, invoke resolves to a string containing
\* `did not return an item with the property 'p'`, and the output event is
\* that error.
MissingPropertyNamed ==
    \A i \in Invocations :
        (HasFirstItem(i) /\ FirstItemValue(i).t = "undefined") =>
            /\ settled[i].state = "rejected"
            /\ Contains(settled[i].error.message,
                   <<"did not return an item with the property '",
                     cfg.responsePropertyName, "'">>)
            /\ Returned(i) =>
                  /\ ret[i].state = "resolved"
                  /\ ret[i].value.t = "string"
                  /\ Contains(ret[i].value.s,
                         <<"did not return an item with the property '",
                           cfg.responsePropertyName, "'">>)
                  /\ ErrorOutput(i, settled[i].error)

\* responsePropertyName is "result", the item holds only "response", and the
\* invocation returned.
MissingPropertyWitness ==
    \E i \in Invocations :
        /\ Returned(i) /\ HasFirstItem(i)
        /\ cfg.responsePropertyName = "result"
        /\ received[i].data.branches[1][1].json["response"] = Str(<<"blue">>)
        /\ FirstItemValue(i).t = "undefined"


\* Reading decimal text back: the value of a digit, of a run of digits, and of
\* an optionally signed numeral.
DecimalDigits == {"0", "1", "2", "3", "4", "5", "6", "7", "8", "9"}

DigitValue(c) ==
    CHOOSE d \in 0..9 : <<"0", "1", "2", "3", "4", "5", "6", "7", "8", "9">>[d + 1] = c

RECURSIVE DigitsValue(_)
DigitsValue(text) ==
    IF text = <<>> THEN 0
    ELSE 10 * DigitsValue(SubSeq(text, 1, Len(text) - 1)) + DigitValue(text[Len(text)])

\* text is the decimal numeral of an integer: digits, no leading zero, a
\* minus sign only before a non-zero number.
IsDecimalNumeral(text) ==
    LET digits == IF text # <<>> /\ text[1] = "-" THEN Tail(text) ELSE text
    IN  /\ digits # <<>>
        /\ \A k \in 1..Len(digits) : digits[k] \in DecimalDigits
        /\ Len(digits) > 1 => digits[1] # "0"
        /\ digits # text => digits # <<"0">>

DecimalValue(text) ==
    IF text[1] = "-" THEN 0 - DigitsValue(Tail(text)) ELSE DigitsValue(text)

\* C9: when the extracted response is a number n, invoke resolves to exactly
\* the decimal numeral of n ("42" for 42), the invocation succeeds, and its
\* only output event is the success payload { response: <that numeral> }.
NumberReturnedAsDecimalString ==
    \A i \in Invocations :
        (Returned(i) /\ HasFirstItem(i) /\ FirstItemValue(i).t = "number") =>
            /\ ret[i].state = "resolved"
            /\ ret[i].value.t = "string"
            /\ IsDecimalNumeral(ret[i].value.s)
            /\ DecimalValue(ret[i].value.s) = FirstItemValue(i).n
            /\ FirstItemValue(i).n = 42 => ret[i].value.s = <<"4", "2">>
            /\ SuccessOutput(i, ret[i].value.s)

\* The sub-workflow answered { response: -7 } and the invocation returned "-7".
NumberReturnedWitness ==
    \E i \in Invocations :
        /\ Returned(i) /\ HasFirstItem(i)
        /\ FirstItemValue(i) = Num(-7)
        /\ ret[i].value.s = <<"-", "7">>

\* The name typeof gives for a value that is neither a string nor a number.
RuntimeTypeName(v) ==
    CASE v.t = "boolean" -> "boolean"
      [] v.t = "object" -> "object"
      [] v.t = "null" -> "object"

\* C10: when the extracted response is neither a string nor a number (an
\* object, a boolean, null), invoke resolves to a string that starts with
\* `There was an error:` and contains the value's runtime type name, and the
\* only output event is the invalid-response-type error, not a response.
InvalidTypeReportedAsError ==
    \A i \in Invocations :
        (Returned(i) /\ InvalidResponseType(i)) =>
            /\ ret[i].state = "resolved"
            /\ ret[i].value.t = "string"
            /\ StartsWith(ret[i].value.s, <<"There was an error:">>)
            /\ Contains(ret[i].value.s, <<"'", RuntimeTypeName(FirstItemValue(i)), "'">>)
            /\ \E e \in {runData[index[i]].output[n].error :
                             n \in 1..Len(runData[index[i]].output)} :
                   /\ ErrorOutput(i, e)
                   /\ e.class = "NodeOperationError"
                   /\ Contains(e.message, <<"'", RuntimeTypeName(FirstItemValue(i)), "'">>)
                   /\ ret[i].value.s = <<"There was an error:", " \"">> \o e.message \o <<"\"">>

\* The sub-workflow answered { response: true } and the invocation returned.
InvalidTypeWitness ==
    \E i \in Invocations :
        Returned(i) /\ HasFirstItem(i) /\ FirstItemValue(i) = Bool



(***************************************************************************)
(* The composer (SpecCompose).                                             *)
(***************************************************************************)
\* The entry at position k of fields.values is an object override whose raw
\* value begins with the marker.
MarkedObject(k) ==
    /\ cfg.fields[k].type = "objectValue"
    /\ Len(cfg.fields[k].objectValue) >= 1
    /\ cfg.fields[k].objectValue[1] = "="

\* No later marked object override has the name of the one at position k.
LastOfItsName(k) ==
    \A j \in (k + 1)..Len(cfg.fields) :
        MarkedObject(j) => cfg.fields[j].name # cfg.fields[k].name

\* value is raw without its leading markers: raw is one or more markers
\* followed by value, and value does not begin with a marker.
IsStrippedOf(value, raw) ==
    /\ \E n \in 1..Len(raw) :
           /\ \A j \in 1..n : raw[j] = "="
           /\ value = SubSeq(raw, n + 1, Len(raw))
    /\ (value = <<>> \/ value[1] # "=")

\* The raw record invocation i handed to the merge transform.
RawDataOf(i) == mergeCalls[i][1].rawData

\* C11: for an object override whose raw value begins with one or more
\* markers, the record handed to the merge transform holds under the
\* override's name the raw value with all its leading markers removed, as
\* text (the last such override of a name decides, see C20).
MarkedObjectStoredStripped ==
    \A i \in Invocations :
        mergeCalls[i] # <<>> =>
            \A k \in 1..Len(cfg.fields) :
                MarkedObject(k) /\ LastOfItsName(k) =>
                    /\ cfg.fields[k].name \in DOMAIN RawDataOf(i)
                    /\ IsStrippedOf(RawDataOf(i)[cfg.fields[k].name],
                                    cfg.fields[k].objectValue)

\* Reached: an override "=={a:1}" was composed into "{a:1}".
MarkedObjectStoredStrippedWitness ==
    \E i \in Invocations :
        /\ mergeCalls[i] # <<>>
        /\ \E k \in 1..Len(cfg.fields) :
               /\ MarkedObject(k)
               /\ cfg.fields[k].objectValue = <<"=", "=", "{a:1}">>
               /\ RawDataOf(i)[cfg.fields[k].name] = <<"{a:1}">>



(***************************************************************************)
(* The engine call.                                                        *)
(***************************************************************************)
\* The resolver and the composer (raw record and merge transform) of
\* invocation i have both succeeded: runFunction is past its await of
\* manual.execute.
ComposerSucceeded(i) ==
    pc[i] = "engine" \/ received[i].state # "none"

\* runFunction of invocation i stopped before executeWorkflow: the workflow
\* document did not parse, or manual.execute threw.
StoppedBeforeEngine(i) ==
    pc[i] \in {"settled", "returned"} /\ received[i].state = "none"

\* C12: executeWorkflow is called at most once per invocation on every path:
\* not at all before the merge transform has answered or when the resolver
\* or the merge transform failed, exactly once when both succeeded, and
\* still once after it rejected (no retry).
EngineCalledAtMostOnce ==
    \A i \in Invocations :
        /\ Len(execCalls[i]) <= 1
        /\ pc[i] \in {"idle", "merge"} => Len(execCalls[i]) = 0
        /\ StoppedBeforeEngine(i) => Len(execCalls[i]) = 0
        /\ ComposerSucceeded(i) => Len(execCalls[i]) = 1
        /\ received[i].state = "rejected" => Len(execCalls[i]) = 1

\* Reached: an invocation whose executeWorkflow rejected has returned, and
\* another one whose merge transform failed has returned.
EngineCalledAtMostOnceWitness ==
    \E i, j \in Invocations :
        /\ Returned(i) /\ received[i].state = "rejected"
        /\ Len(execCalls[i]) = 1
        /\ Returned(j) /\ StoppedBeforeEngine(j) /\ mergeCalls[j] # <<>>


\* C13: every call of executeWorkflow carries a workflow reference with
\* exactly one variant, the one the source parameter selects: the stored id
\* and no inline definition for database, the parsed inline definition and
\* no id for parameter; never neither, never both.
OneWorkflowVariantPerSource ==
    \A i \in Invocations :
        \A k \in 1..Len(execCalls[i]) :
            LET info == execCalls[i][k].workflowInfo
            IN  /\ info.hasId # info.hasCode
                /\ cfg.source = "database" =>
                       info.hasId /\ info.id = cfg.workflowId
                /\ cfg.source = "parameter" =>
                       /\ info.hasCode
                       /\ JSON_parse(cfg.workflowJson).ok
                       /\ info.code = JSON_parse(cfg.workflowJson).value

\* Reached: executeWorkflow was called with an inline definition that is a
\* JSON array between line breaks.
OneWorkflowVariantWitness ==
    \E i \in Invocations :
        /\ cfg.source = "parameter"
        /\ cfg.workflowJson = <<"\n", "[", "]", "\n">>
        /\ Len(execCalls[i]) = 1
        /\ execCalls[i][1].workflowInfo.code = "array"



(***************************************************************************)
(* The returned string and the output event.                               *)
(***************************************************************************)
\* The output events invocation i recorded, wherever they are in the trace.
OutputEventsOf(i) ==
    { runData[x[1]].output[x[2]] : x \in OutputsOf(i) }

\* runFunction of invocation i resolved with a string or a number, which
\* func returns as the plain response.
PlainResponse(i) ==
    settled[i].state = "resolved" /\ TypeOf(settled[i].value) \in {"string", "number"}

\* C14: the string an invocation returned agrees with its output event: a
\* success event { response: t } goes with the returned string t, an error
\* event e with the returned string There was an error: "<e.message>"; a
\* success event is recorded only for a plain response and an error event
\* only when there is none.
ReturnedStringAgreesWithOutput ==
    \A i \in Invocations :
        Returned(i) =>
            /\ ret[i].state = "resolved"
            /\ \A e \in OutputEventsOf(i) :
                   IF e.error.isError
                   THEN /\ ret[i].value =
                              Str(<<"There was an error:", " \"">>
                                  \o e.error.message \o <<"\"">>)
                        /\ ~PlainResponse(i)
                   ELSE /\ e.data.t = "string"
                        /\ ret[i].value = e.data
                        /\ PlainResponse(i)

\* Reached: one invocation returned with a success event and another one
\* with the error event of a response that is an object.
ReturnedStringAgreesWitness ==
    \E i, j \in Invocations :
        /\ Returned(i) /\ SuccessOutput(i, <<"blue">>)
        /\ ret[i].value = Str(<<"blue">>)
        /\ Returned(j) /\ InvalidResponseType(j)
        /\ \E e \in OutputEventsOf(j) : e.error.isError



(***************************************************************************)
(* Setup.                                                                  *)
(***************************************************************************)
\* Nothing has happened: no invocation started, no event, no call of the
\* merge transform or of the engine, nothing returned.
NothingHappened ==
    /\ runData = NoRunData
    /\ \A i \in Invocations :
           /\ pc[i] = "idle"
           /\ index[i] = -1
           /\ mergeCalls[i] = <<>>
           /\ execCalls[i] = <<>>
           /\ received[i] = NotReceived
           /\ settled[i] = Pending
           /\ ret[i] = Pending

\* C15: when supplyData fails to read name or description, no tool exists:
\* no invocation ever starts, no input or output event is recorded and the
\* engine is never called.  (The same holds before supplyData has run.)
SetupFailureMeansNoTool ==
    toolState \in {"failed", "unbuilt"} => NothingHappened

\* Reached: supplyData has failed.
SetupFailureWitness ==
    toolState = "failed" /\ NothingHappened



(***************************************************************************)
(* The order of an invocation's steps.                                     *)
(***************************************************************************)
\* The moves of one invocation: from not started to running (the merge
\* transform, then the engine), to an outcome, to reported.
LifecycleMoves ==
    { <<"idle", "merge">>, <<"idle", "settled">>,
      <<"merge", "engine">>, <<"merge", "settled">>,
      <<"engine", "settled">>,
      <<"settled", "returned">> }

\* What holds of invocation i in every state: nothing of the resolver, the
\* composer or the engine without its input event; no engine call without a
\* workflow reference and a composed record; an outcome exactly from
\* "settled" on; an output event and a returned string exactly in "returned".
LifecycleState(i) ==
    /\ pc[i] = "idle" <=> InputsOf(i) = {}
    /\ pc[i] = "idle" =>
           mergeCalls[i] = <<>> /\ execCalls[i] = <<>> /\ received[i] = NotReceived
    /\ execCalls[i] # <<>> =>
           /\ mergeCalls[i] # <<>>
           /\ workflowInfo[i] # NoWorkflowInfo
           /\ pc[i] \in {"engine", "settled", "returned"}
    /\ settled[i] # Pending <=> pc[i] \in {"settled", "returned"}
    /\ OutputsOf(i) # {} <=> pc[i] = "returned"
    /\ ret[i] # Pending <=> pc[i] = "returned"

\* What holds of invocation i in every step.
LifecycleStep(i) ==
    /\ pc'[i] # pc[i] => <<pc[i], pc'[i]>> \in LifecycleMoves
    /\ execCalls'[i] # execCalls[i] => pc[i] = "merge" /\ pc'[i] = "engine"
    /\ settled'[i] # settled[i] => settled[i] = Pending
    /\ pc[i] = "returned" =>
           /\ pc'[i] = "returned"
           /\ ret'[i] = ret[i]
           /\ settled'[i] = settled[i]
           /\ runData'[index[i]] = runData[index[i]]
           /\ index'[i] = index[i]

\* C16: an invocation moves only in the order Invoked, Running, Succeeded
\* or Failed, Reported: the input event comes before the resolver, the
\* composer and the engine; the engine is called only after the resolver and
\* the composer finished; the output event is recorded only once the outcome
\* is there and not after the return; Reported is final and the outcome does
\* not change after the output event.
LifecycleOrder ==
    /\ [](\A i \in Invocations : LifecycleState(i))
    /\ [][\A i \in Invocations : LifecycleStep(i)]_vars

\* Reached: one invocation is reported after a call of the engine while
\* another one is still waiting for the engine.
LifecycleOrderWitness ==
    \E i, j \in Invocations :
        /\ Returned(i) /\ Len(execCalls[i]) = 1
        /\ pc[j] = "engine"



(***************************************************************************)
(* The lookup of the response (SpecOne).                                   *)
(***************************************************************************)
\* The error for a response property that is not there.
MissingResponseError ==
    [isError |-> TRUE, class |-> "NodeOperationError", node |-> NodeName,
     message |-> <<"There was an error:", " \"", "The workflow ",
                   "did not return an item with the property '",
                   cfg.responsePropertyName, "'", "\"">>]

\* C17: when a level on the way to the response is missing (no result, no
\* branch, an empty first branch, a first item without json), the lookup
\* yields nothing and the invocation fails with the missing-property error,
\* not with any other fault: runFunction rejects with that error, and once
\* returned the invocation has recorded it and answered with its text.
MissingLevelIsMissingProperty ==
    \A i \in Invocations :
        received[i].state = "resolved" /\ ~HasFirstItem(i) =>
            /\ settled[i] = Rejected(MissingResponseError)
            /\ Returned(i) =>
                   /\ ErrorOutput(i, MissingResponseError)
                   /\ ret[i] = Resolved(Str(<<"There was an error:", " \"">>
                                            \o MissingResponseError.message
                                            \o <<"\"">>))

\* Reached: the engine answered with a first item that has no json, and the
\* invocation returned.
MissingLevelWitness ==
    \E i \in Invocations :
        /\ Returned(i)
        /\ received[i].state = "resolved"
        /\ received[i].data = Result(<< <<BareItem>> >>)
        /\ ErrorOutput(i, MissingResponseError)


\* The places <<branch, position>> other than the first item of the first
\* branch where the engine's result for invocation i has the property.
ElsewhereWithProperty(i) ==
    { x \in UNION { {<<b, k>> : k \in 1..Len(received[i].data.branches[b])} :
                      b \in 1..Len(received[i].data.branches) } :
        /\ x # <<1, 1>>
        /\ received[i].data.branches[x[1]][x[2]].hasJson
        /\ received[i].data.branches[x[1]][x[2]].json[cfg.responsePropertyName].t
               # "undefined" }

\* C18: only the first item of the first branch is looked at: when the
\* property is only in a later item or a later branch the invocation fails
\* with the missing-property error, and when the first item has it,
\* runFunction resolves with the first item's value whatever the other items
\* and branches hold.
OnlyFirstItemConsulted ==
    \A i \in Invocations :
        received[i].state = "resolved" /\ ElsewhereWithProperty(i) # {} =>
            IF HasFirstItem(i) /\ FirstItemValue(i).t # "undefined"
            THEN /\ settled[i] = Resolved(FirstItemValue(i))
                 /\ Returned(i) /\ FirstItemValue(i).t = "string" =>
                        ret[i] = Resolved(FirstItemValue(i))
            ELSE /\ settled[i] = Rejected(MissingResponseError)
                 /\ Returned(i) => ErrorOutput(i, MissingResponseError)

\* Reached: the property was only in the first item of the second branch,
\* and the invocation returned the missing-property error.
OnlyFirstItemWitness ==
    \E i \in Invocations :
        /\ Returned(i)
        /\ received[i].data = Result(<< <<EmptyItem>>, <<DecoyItem>> >>)
        /\ ElsewhereWithProperty(i) = {<<2, 1>>}
        /\ ErrorOutput(i, MissingResponseError)



(***************************************************************************)
(* What the composer writes (SpecCompose).                                 *)
(***************************************************************************)
\* The names of the object overrides whose raw value begins with the marker.
MarkedObjectNames ==
    { cfg.fields[k].name : k \in { j \in 1..Len(cfg.fields) : MarkedObject(j) } }

\* C19: the raw record holds the query and, under their names, the stripped
\* values of the object overrides that begin with the marker, and nothing
\* else: overrides of the other kinds and object overrides without a marker
\* leave it as it is.
OnlyMarkedObjectsWritten ==
    \A i \in Invocations :
        mergeCalls[i] # <<>> =>
            /\ DOMAIN RawDataOf(i) = {"query"} \cup MarkedObjectNames
            /\ \A key \in DOMAIN RawDataOf(i) :
                   IF key \in MarkedObjectNames
                   THEN \E k \in 1..Len(cfg.fields) :
                            /\ MarkedObject(k)
                            /\ cfg.fields[k].name = key
                            /\ IsStrippedOf(RawDataOf(i)[key],
                                            cfg.fields[k].objectValue)
                   ELSE RawDataOf(i)[key] = query[i]
            /\ MarkedObjectNames = {} =>
                   RawDataOf(i) = [key \in {"query"} |-> query[i]]

\* Reached: a string override with a marker and an object override without
\* one left the raw record with the query alone.
OnlyMarkedObjectsWitness ==
    \E i \in Invocations :
        /\ mergeCalls[i] # <<>>
        /\ cfg.fields = << StringField("extra", <<"=", "x">>),
                           ObjectField("extra", <<"{c:3}">>) >>
        /\ RawDataOf(i) = [key \in {"query"} |-> query[i]]


\* The positions of the marked object overrides named name.
MarkedObjectsNamed(name) ==
    { k \in 1..Len(cfg.fields) : MarkedObject(k) /\ cfg.fields[k].name = name }

\* raw without its leading markers.
StrippedValue(raw) ==
    CHOOSE value \in { SubSeq(raw, n + 1, Len(raw)) : n \in 1..Len(raw) } :
        IsStrippedOf(value, raw)

\* C20: the overrides are applied in the order of fields.values: when
\* several marked object overrides have the same name, the raw record holds
\* under that name the stripped value of the last of them.
LastOverrideOfANameWins ==
    \A i \in Invocations :
        mergeCalls[i] # <<>> =>
            \A name \in MarkedObjectNames :
                Cardinality(MarkedObjectsNamed(name)) >= 2 =>
                    LET last == CHOOSE k \in MarkedObjectsNamed(name) :
                                    \A j \in MarkedObjectsNamed(name) : j <= k
                    IN  RawDataOf(i)[name] =
                            StrippedValue(cfg.fields[last].objectValue)

\* Reached: two overrides of "extra" with different values were composed,
\* and the record holds the value of the second.
LastOverrideWinsWitness ==
    \E i \in Invocations :
        /\ mergeCalls[i] # <<>>
        /\ cfg.fields = << ObjectField("extra", <<"=", "{b:", "=", "2}">>),
                           ObjectField("extra", <<"=", "=", "{a:1}">>) >>
        /\ RawDataOf(i)["extra"] = <<"{a:1}">>



(***************************************************************************)
(* Concurrent invocations.                                                 *)
(***************************************************************************)
\* The outcomes runFunction can have when invocation i runs alone with its
\* own query, the node parameters and what its own collaborators answered.
OutcomesAlone(i) ==
    IF mergeCalls[i] = <<>>
    THEN { Rejected(ResolveWorkflow(cfg).error) }
    ELSE IF received[i].state = "none"
    THEN { Rejected(NodeOperationError(NodeName, Error(m))) : m \in MergeErrorMessages }
    ELSE IF received[i].state = "rejected"
    THEN { WrapEngineError(Error(received[i].message)) }
    ELSE { ExtractResponse(received[i].data, cfg.responsePropertyName) }

\* C21: concurrent invocations do not interfere: the string a returned
\* invocation answered and the payload of its output event are those of the
\* same invocation running alone (they follow from its own query, the node
\* parameters and its own collaborators' answers), the record handed to the
\* engine is composed from its own query.
InvocationsDoNotInterfere ==
    \A i \in Invocations :
        /\ execCalls[i] # <<>> =>
               execCalls[i][1].items =
                   << [json |-> ComposeRawData(query[i], cfg.fields)] >>
        /\ Returned(i) =>
               \E o \in OutcomesAlone(i) :
                   /\ ret[i] = Resolved(Normalize(o).response)
                   /\ { runData[x[1]].input[x[2]] : x \in InputsOf(i) } =
                          { InputEvent(i, query[i]) }
                   /\ OutputEventsOf(i) = { OutputEvent(i, Normalize(o)) }

\* Reached: two invocations with different queries have both returned, one
\* with the engine's answer and the other with the engine's error.
InvocationsDoNotInterfereWitness ==
    \E i, j \in Invocations :
        /\ i < j
        /\ Returned(i) /\ Returned(j)
        /\ query[i] # query[j]
        /\ received[i].state = "resolved" /\ received[j].state = "rejected"
        /\ ret[i] = Resolved(Str(<<"blue">>))
        /\ ret[j] # ret[i]


\* C22: every started invocation eventually reports and returns, given that
\* each call of the merge transform and of the engine eventually completes
\* or fails; and while its engine call is pending the invocation stays
\* running: it has no outcome, no output event and no returned string.
StartedInvocationsReport ==
    /\ \A i \in Invocations : (pc[i] # "idle") ~> Returned(i)
    /\ [](\A i \in Invocations :
             pc[i] = "engine" =>
                 /\ received[i].state = "none"
                 /\ settled[i] = Pending
                 /\ OutputEventsOf(i) = {}
                 /\ ret[i] = Pending)
    /\ [][\A i \in Invocations :
             pc[i] = "engine" /\ pc'[i] # "engine" => received'[i].state # "none"]_vars

\* Reached: an invocation whose engine call failed has reported while the
\* engine call of another one is still pending.
StartedInvocationsReportWitness ==
    \E i, j \in Invocations :
        /\ Returned(i) /\ received[i].state = "rejected"
        /\ ret[i].state = "resolved"
        /\ pc[j] = "engine" /\ OutputEventsOf(j) = {}


\* Invocation i normalises its outcome, records its output event and returns
\* in this step, and nothing of another invocation happens in it.
ReportsInOneStep(i) ==
    /\ pc[i] = "settled" /\ pc'[i] = "returned"
    /\ ret[i] = Pending /\ ret'[i] # Pending
    /\ Len(runData'[index[i]].output) = Len(runData[index[i]].output) + 1
    /\ \A j \in Invocations \ {i} :
           /\ pc'[j] = pc[j]
           /\ ret'[j] = ret[j]
           /\ mergeCalls'[j] = mergeCalls[j]
           /\ execCalls'[j] = execCalls[j]
    /\ \A k \in RunIndexes :
           /\ runData'[k].input = runData[k].input
           /\ k # index[i] => runData'[k].output = runData[k].output

\* C23: normalisation of the outcome, the output event and the return are
\* one step without suspension: every step that records an output event or
\* returns a string does all of it for one invocation with no step of
\* another invocation in between, and in no state has an invocation
\* recorded its output event without having returned (it does not wait on
\* the recorder).
NormalisationAndOutputAtomic ==
    /\ [][ (\E k \in RunIndexes : runData'[k].output # runData[k].output)
               \/ ret' # ret
           => \E i \in Invocations : ReportsInOneStep(i) ]_vars
    /\ [](\A i \in Invocations : OutputEventsOf(i) # {} <=> ret[i] # Pending)

\* Reached: an invocation has reported while another one has an outcome
\* that it has not normalised yet.
NormalisationAtomicWitness ==
    \E i, j \in Invocations :
        /\ Returned(i) /\ OutputEventsOf(i) # {}
        /\ pc[j] = "settled" /\ OutputEventsOf(j) = {} /\ ret[j] = Pending



(***************************************************************************)
(* Falsy responses (SpecOne).                                              *)
(***************************************************************************)
\* C24: a response that is there but falsy is not taken for missing: the
\* empty string is returned as the empty string with the success event
\* { response: "" }, the number 0 as "0"; the missing-property error comes
\* only from a value that is undefined.
FalsyResponseIsNotMissing ==
    \A i \in Invocations :
        /\ HasFirstItem(i) /\ FirstItemValue(i) = Str(<<>>) =>
               /\ settled[i] = Resolved(Str(<<>>))
               /\ Returned(i) =>
                      ret[i] = Resolved(Str(<<>>)) /\ SuccessOutput(i, <<>>)
        /\ HasFirstItem(i) /\ FirstItemValue(i) = Num(0) =>
               /\ settled[i] = Resolved(Num(0))
               /\ Returned(i) =>
                      ret[i] = Resolved(Str(<<"0">>)) /\ SuccessOutput(i, <<"0">>)
        /\ settled[i] = Rejected(MissingResponseError) =>
               /\ received[i].state = "resolved"
               /\ HasFirstItem(i) => FirstItemValue(i).t = "undefined"

\* Reached: the sub-workflow answered with the empty string and the
\* invocation returned it as a success.
FalsyResponseWitness ==
    \E i \in Invocations :
        /\ Returned(i)
        /\ HasFirstItem(i) /\ FirstItemValue(i) = Str(<<>>)
        /\ ret[i] = Resolved(Str(<<>>))
        /\ SuccessOutput(i, <<>>)



SetupPageRedirect ==
    /\ navPc = "init" => ran = <<>> /\ nextLog = <<>>
    /\ showSetupPage => navPc # "middleware"
    /\ navPc = "done" /\ showSetupPage =>
           /\ ran = <<>>
           /\ nextLog = << NextCall("setup",
                                     IF to.name = "SETUP" THEN "" ELSE "SETUP") >>

\* Reached: a navigation to the workflows view was redirected to the setup
\* view.
SetupPageRedirectWitness ==
    /\ navPc = "done"
    /\ showSetupPage
    /\ to.name = "WORKFLOWS"
    /\ ran = <<>>
    /\ nextLog = << NextCall("setup", "SETUP") >>

==========================================================================
